---- MODULE Spec2Model ----
(***************************************************************************)
(* PTGBot (ptgbot/bot.py): an IRC bot keeping a "now / next" session board *)
(* per room.  The model follows the bot's event handlers: on_welcome,      *)
(* on_cap and on_pubmsg, driven by the single-threaded reactor that        *)
(* bot.start() runs.  Text is modelled character by character (sequences   *)
(* of one-character strings) so that startswith, split, lower and join are *)
(* computed the way Python computes them.                                  *)
(***************************************************************************)
EXTENDS Integers, Sequences, FiniteSets, TLC

VARIABLES
    identify_msg_cap,   \* PTGBot.identify_msg_cap
    channels,           \* self.channels: per channel, the voiced and oper nicks
    data,               \* self.data: the board held by PTGDataBase
    sent,               \* lines written to the connection by the handler in progress
    event,              \* the event the reactor is dispatching (NoEvent while it waits)
    board0,             \* history: the board when the dispatch began
    shape,              \* history: the tokens and layout the dispatched text was built from
    running,            \* bot.start() has not been left by an exception
    fault,              \* history: what failed in the dispatch in progress
    again,              \* history: the dispatch repeats the previous message
    latest,             \* history: per cell, the last accepted set since the last wipe
    acked               \* history: identify-msg was ACKed since the last welcome

vars == <<identify_msg_cap, channels, data, sent, event, board0, shape,
          running, fault, again, latest, acked>>

----------------------------------------------------------------------------
(* Bounds of the explored inputs *)

\* the longest session name, in words, of a generated message
MaxSessionWords == 2

----------------------------------------------------------------------------
(* Python string primitives, on sequences of characters *)

UpperChars == <<"A","B","C","D","E","F","G","H","I","J","K","L","M",
                "N","O","P","Q","R","S","T","U","V","W","X","Y","Z">>
LowerChars == <<"a","b","c","d","e","f","g","h","i","j","k","l","m",
                "n","o","p","q","r","s","t","u","v","w","x","y","z">>

lower_char(c) ==
    IF \E i \in 1..26 : UpperChars[i] = c
    THEN LowerChars[CHOOSE i \in 1..26 : UpperChars[i] = c]
    ELSE c

\* str.lower()
lower(s) == [i \in 1..Len(s) |-> lower_char(s[i])]

isspace(c) == c \in {" ", "\t"}

RECURSIVE split_from(_, _, _, _)
split_from(s, i, cur, acc) ==
    IF i > Len(s)
    THEN (IF cur = <<>> THEN acc ELSE Append(acc, cur))
    ELSE IF isspace(s[i])
         THEN split_from(s, i + 1, <<>>, IF cur = <<>> THEN acc ELSE Append(acc, cur))
         ELSE split_from(s, i + 1, Append(cur, s[i]), acc)

\* str.split() without arguments: runs of whitespace separate, no empty words
split(s) == split_from(s, 1, <<>>, <<>>)

\* a plausible slip: the words are glued together without the separator
RECURSIVE join_glued(_, _)
join_glued(sep, words) ==
    IF words = <<>> THEN <<>> ELSE Head(words) \o join_glued(sep, Tail(words))

\* str.join(sep, words)
RECURSIVE join(_, _)
join(sep, words) ==
    IF words = <<>> THEN <<>>
    ELSE IF Len(words) = 1 THEN Head(words)
    ELSE Head(words) \o sep \o join(sep, Tail(words))

\* a plausible slip: leading whitespace is stripped before the test
startswith_stripped(s, c) ==
    \E i \in 1..Len(s) :
        /\ s[i] = c
        /\ \A j \in 1..(i - 1) : isspace(s[j])

\* str.startswith(c) for a one-character prefix
startswith(s, c) == Len(s) > 0 /\ s[1] = c

\* e.source.split('!')[0]
nick_of(source) ==
    LET marks == {i \in 1..Len(source) : source[i] = "!"}
    IN  IF marks = {} THEN source
        ELSE SubSeq(source, 1, (CHOOSE i \in marks : \A j \in marks : i <= j) - 1)

\* a Python str value used as a dict key or in a formatted reply
RECURSIVE Str(_)
Str(s) == IF s = <<>> THEN "" ELSE Head(s) \o Str(Tail(s))

\* 'needle' in haystack
contains(hay, needle) ==
    \E i \in 0..(Len(hay) - Len(needle)) :
        SubSeq(hay, i + 1, i + Len(needle)) = needle

----------------------------------------------------------------------------
(* The board: PTGDataBase, as the specification's State Store describes it *)

Slots == {"now", "next"}

EmptyBoard == [now |-> <<>>, next |-> <<>>]

add_now_shifting(d, room, session) ==
    IF room \in DOMAIN d.now
    THEN [now |-> (room :> session) @@ d.now, next |-> (room :> d.now[room]) @@ d.next]
    ELSE [d EXCEPT !.now = (room :> session) @@ d.now]

add_now(d, room, session) == [d EXCEPT !.now = (room :> session) @@ d.now]

add_next(d, room, session) == [d EXCEPT !.next = (room :> session) @@ d.next]

wipe(d) == EmptyBoard

----------------------------------------------------------------------------
(* The connection and the channel state kept by the irc library *)

Chans == {"#ptg", "#dev"}

\* the configured channel_list, in order
channel_list == <<"#ptg", "#dev">>

Nicks == {"ann"}

\* the configured nickserv password
password == "pw"

NoEvent == [type |-> "none"]

privmsg_front(out, target, text) == << <<"PRIVMSG", target, text>> >> \o out

privmsg(out, target, text) == Append(out, <<"PRIVMSG", target, text>>)

\* PTGBot.send
send(out, channel, msg) == privmsg(out, channel, msg)

UsageText == "Format is '@ROOM [now|next] SESSION'"

usage_first_channel(out, channel) == send(out, channel_list[1], UsageText)

\* PTGBot.usage
usage(out, channel) == send(out, channel, UsageText)

is_voiced(chs, chan, nick) == nick \in chs[chan].voiced

is_oper(chs, chan, nick) == nick \in chs[chan].opers

----------------------------------------------------------------------------
(* PTGBot.on_pubmsg, piece by piece *)

\* a plausible slip: the capability test is dropped
cap_unchecked(cap) == FALSE

\* "if not self.identify_msg_cap: return"
cap_blocks(cap) == ~cap

\* a plausible slip: the privilege is looked up on every channel, not on chan
may_set_anywhere(chs, chan, nick) ==
    \E c \in DOMAIN chs : is_voiced(chs, c, nick) \/ is_oper(chs, c, nick)

\* the test guarding '#' commands
may_set(chs, chan, nick) == is_voiced(chs, chan, nick) \/ is_oper(chs, chan, nick)

\* a plausible slip: voice is taken to be enough for admin commands
may_admin_voiced(chs, chan, nick) ==
    is_voiced(chs, chan, nick) \/ is_oper(chs, chan, nick)

\* the test guarding '!' commands
may_admin(chs, chan, nick) == is_oper(chs, chan, nick)

\* a plausible slip: off by one in the argument count
too_few_off_by_one(words) == Len(words) < 2

\* "if len(words) < 3"
too_few(words) == Len(words) < 3

\* a plausible slip: the command word is compared as typed
command_as_typed(words) == Str(Tail(words[1]))

\* "command = words[0][1:].lower()"
command_of(words) == Str(lower(Tail(words[1])))

\* a plausible slip: the usage line is sent here as it is in the '#' branch
unknown_command_with_usage(out, chan, nick, command) ==
    usage(send(out, chan, nick \o ": unknown command '" \o command \o "'"), chan)

\* the reply to an admin command other than wipe
unknown_command(out, chan, nick, command) ==
    send(out, chan, nick \o ": unknown command '" \o command \o "'")

\* the '#' branch with the argument checks moved in front of the privilege test
hash_branch_parse_first(chs, d, out, nick, msg, chan) ==
    IF ~startswith(msg, "#")
    THEN [data |-> d, sent |-> out, returned |-> FALSE]
    ELSE
    LET words == split(msg) IN
    IF too_few(words)
    THEN [data |-> d,
          sent |-> usage(send(out, chan, nick \o ": Incorrect number of arguments"), chan),
          returned |-> TRUE]
    ELSE
    LET room    == Str(lower(Tail(words[1])))
        adverb  == Str(lower(words[2]))
        session == Str(join(<<" ">>, SubSeq(words, 3, Len(words))))
    IN
    IF adverb \notin {"now", "next"}
    THEN [data |-> d,
          sent |-> usage(send(out, chan,
                              nick \o ": unknown directive '" \o adverb \o "'"), chan),
          returned |-> TRUE]
    ELSE IF ~may_set(chs, chan, nick)
    THEN [data |-> d,
          sent |-> send(out, chan, nick \o ": Need voice to issue commands"),
          returned |-> TRUE]
    ELSE [data |-> IF adverb = "now" THEN add_now(d, room, session)
                   ELSE add_next(d, room, session),
          sent |-> send(out, chan, nick \o ": ack"),
          returned |-> FALSE]

hash_branch_next_as_now(chs, d, out, nick, msg, chan) ==
    IF ~startswith(msg, "#")
    THEN [data |-> d, sent |-> out, returned |-> FALSE]
    ELSE IF ~may_set(chs, chan, nick)
    THEN [data |-> d,
          sent |-> send(out, chan, nick \o ": Need voice to issue commands"),
          returned |-> TRUE]
    ELSE
    LET words == split(msg) IN
    IF too_few(words)
    THEN [data |-> d,
          sent |-> usage(send(out, chan, nick \o ": Incorrect number of arguments"), chan),
          returned |-> TRUE]
    ELSE
    LET room    == Str(lower(Tail(words[1])))
        adverb  == Str(lower(words[2]))
        session == Str(join(<<" ">>, SubSeq(words, 3, Len(words))))
    IN
    IF adverb \in {"now", "next"}
    THEN [data |-> add_now(d, room, session),
          sent |-> send(out, chan, nick \o ": ack"),
          returned |-> FALSE]
    ELSE [data |-> d,
          sent |-> usage(send(out, chan,
                              nick \o ": unknown directive '" \o adverb \o "'"), chan),
          returned |-> TRUE]

\* "if msg.startswith('#'):" and its body; returned tells whether the body
\* left the handler with a return statement
hash_branch(chs, d, out, nick, msg, chan) ==
    IF ~startswith(msg, "#")
    THEN [data |-> d, sent |-> out, returned |-> FALSE]
    ELSE IF ~may_set(chs, chan, nick)
    THEN [data |-> d,
          sent |-> send(out, chan, nick \o ": Need voice to issue commands"),
          returned |-> TRUE]
    ELSE
    LET words == split(msg) IN
    IF too_few(words)
    THEN [data |-> d,
          sent |-> usage(send(out, chan, nick \o ": Incorrect number of arguments"), chan),
          returned |-> TRUE]
    ELSE
    LET room    == Str(lower(Tail(words[1])))
        adverb  == Str(lower(words[2]))
        session == Str(join(<<" ">>, SubSeq(words, 3, Len(words))))
    IN
    IF adverb = "now"
    THEN [data |-> add_now(d, room, session),
          sent |-> send(out, chan, nick \o ": ack"),
          returned |-> FALSE]
    ELSE IF adverb = "next"
    THEN [data |-> add_next(d, room, session),
          sent |-> send(out, chan, nick \o ": ack"),
          returned |-> FALSE]
    ELSE [data |-> d,
          sent |-> usage(send(out, chan,
                              nick \o ": unknown directive '" \o adverb \o "'"), chan),
          returned |-> TRUE]

\* "if msg.startswith('!'):" and its body
bang_branch(chs, d, out, nick, msg, chan) ==
    IF ~startswith(msg, "!")
    THEN [data |-> d, sent |-> out]
    ELSE IF ~may_admin(chs, chan, nick)
    THEN [data |-> d, sent |-> send(out, chan, nick \o ": Need op for admin commands")]
    ELSE
    LET words   == split(msg)
        command == command_of(words)
    IN
    IF command = "wipe"
    THEN [data |-> wipe(d), sent |-> send(out, chan, nick \o ": done")]
    ELSE [data |-> d, sent |-> unknown_command(out, chan, nick, command)]

\* the whole handler: the board and the lines sent when event e is handled
\* with capability flag cap, channel state chs and board d
pubmsg_result(cap, chs, d, e) ==
    IF cap_blocks(cap)
    THEN [data |-> d, sent |-> <<>>]
    ELSE
    LET nick == Str(nick_of(e.source))
        auth == Head(e.arguments[1]) = "+"     \* computed, and never read again
        msg  == Tail(e.arguments[1])
        chan == e.target
        h    == hash_branch(chs, d, <<>>, nick, msg, chan)
    IN
    IF h.returned
    THEN [data |-> h.data, sent |-> h.sent]
    ELSE bang_branch(chs, h.data, h.sent, nick, msg, chan)

----------------------------------------------------------------------------
(* The events the server can deliver *)

\* the tokens a generated message may begin with
FirstToks == { <<"#","a">>, <<"#","A">>,
               <<"!","w","i","p","e">>, <<"!","W","i","P","e">>,
               <<"!","F","o","o">>, <<"!">>,
               <<"h","i">> }

\* the tokens that may follow
SecondToks == { <<"n","o","w">>, <<"N","e","X","t">>, <<"M","a","y","B","e">> }

\* the i-th word of a generated session name
session_word(i) == IF i % 2 = 1 THEN <<"x">> ELSE <<"Y","z">>

session_words(n) == [i \in 1..n |-> session_word(i)]

TokSeqs ==
    {<<>>}
    \cup { <<f>> : f \in FirstToks }
    \cup { <<f, s>> : f \in FirstToks, s \in SecondToks }
    \cup { <<f, s>> \o session_words(n) :
              f \in FirstToks, s \in SecondToks, n \in 1..MaxSessionWords }

\* tight: single spaces; wide: double spaces and a trailing space;
\* lead: single spaces after a leading space
Layouts == {"tight", "wide", "lead"}

Shapes == [toks : TokSeqs, layout : Layouts]

RECURSIVE spaced(_, _)
spaced(toks, sep) ==
    IF toks = <<>> THEN <<>>
    ELSE IF Len(toks) = 1 THEN Head(toks)
    ELSE Head(toks) \o sep \o spaced(Tail(toks), sep)

\* the text of a message of the given shape
render(sh) ==
    CASE sh.layout = "tight" -> spaced(sh.toks, <<" ">>)
      [] sh.layout = "wide"  -> spaced(sh.toks, <<" ", " ">>) \o <<" ">>
      [] sh.layout = "lead"  -> <<" ">> \o spaced(sh.toks, <<" ">>)

\* the identify-msg marker the server puts in front of the text
Markers == {"+", "-"}

Sources == { <<"a","n","n","!","a","@","h">> }

PubmsgEvent(src, chan, marker, sh) ==
    [type |-> "pubmsg", source |-> src, target |-> chan,
     arguments |-> << <<marker>> \o render(sh) >>]

IdentifyMsg == <<"i","d","e","n","t","i","f","y","-","m","s","g">>

CapLists == { IdentifyMsg,
              IdentifyMsg \o <<" ">>,
              <<"m","u","l","t","i","-","p","r","e","f","i","x">> }

CapEvents ==
    { [type |-> "cap", arguments |-> <<sub, caps>>] :
          sub \in {"ACK", "NAK", "LS"}, caps \in CapLists }

ModeEvents ==
    { [type |-> "mode", target |-> c, nick |-> n, mode |-> m] :
          c \in Chans, n \in Nicks, m \in {"+v", "-v", "+o", "-o"} }

----------------------------------------------------------------------------
(* Vocabulary of the properties.  What a message is expected to do is read *)
(* from the tokens and layout it was built from, never from its parse.     *)

HandledPubmsg == event.type = "pubmsg"

Toks == shape.toks

Chan == event.target

OtherChan == CHOOSE c \in Chans : c /= Chan

SenderNick == "ann"

Marker == Head(event.arguments[1])

Voiced == SenderNick \in channels[Chan].voiced

Oper == SenderNick \in channels[Chan].opers

\* the text begins with character c: nothing precedes the first token, whose
\* first character is c
BeginsWith(c) ==
    /\ shape.layout \in {"tight", "wide"}
    /\ Toks /= <<>>
    /\ Head(Head(Toks)) = c

Reply(text) == <<"PRIVMSG", Chan, text>>

Unset == [set |-> FALSE]

Holding(name) == [set |-> TRUE, name |-> name]

\* the content of cell (room, slot) of board b
Cell(b, slot, room) ==
    IF room \in DOMAIN b[slot] THEN Holding(b[slot][room]) ELSE Unset

TokNow == <<"n","o","w">>
TokNext == <<"N","e","X","t">>
TokMaybe == <<"M","a","y","B","e">>
TokWipe == {<<"!","w","i","p","e">>, <<"!","W","i","P","e">>}
TokFoo == <<"!","F","o","o">>
TokBang == <<"!">>
TokRoomA == {<<"#","a">>, <<"#","A">>}

\* the session name of a generated message with n session words
RECURSIVE ExpectedSession(_)
ExpectedSession(n) ==
    IF n = 1 THEN "x"
    ELSE ExpectedSession(n - 1) \o " " \o (IF n % 2 = 1 THEN "x" ELSE "Yz")

\* '#<room> <now|next> <t1> ... <tn>', n >= 1
WellFormedSet ==
    /\ BeginsWith("#")
    /\ Len(Toks) >= 3
    /\ Toks[2] \in {TokNow, TokNext}

ExpectedSlot == IF Toks[2] = TokNow THEN "now" ELSE "next"

AckReply == Reply(SenderNick \o ": ack")
DoneReply == Reply(SenderNick \o ": done")
NeedVoiceReply == Reply(SenderNick \o ": Need voice to issue commands")
NeedOpReply == Reply(SenderNick \o ": Need op for admin commands")
UsageReply == Reply("Format is '@ROOM [now|next] SESSION'")

Sent(r) == \E i \in 1..Len(sent) : sent[i] = r

\* a well-formed set command the handler is to accept
AcceptedSet ==
    HandledPubmsg /\ identify_msg_cap /\ WellFormedSet /\ (Voiced \/ Oper)

\* a wipe command the handler is to accept
AcceptedWipe ==
    HandledPubmsg /\ identify_msg_cap /\ BeginsWith("!") /\ Toks[1] \in TokWipe /\ Oper

\* the room keys the generated messages address
RoomKeys == {"a"}

NothingSet == [slot \in Slots |-> [room \in RoomKeys |-> Unset]]

\* the CAP argument lists that name identify-msg
ListsIdentifyMsg == {IdentifyMsg, IdentifyMsg \o <<" ">>}

OnlySent(r) == \A i \in 1..Len(sent) : sent[i] = r

----------------------------------------------------------------------------
(* The state machine *)

NoShape == [toks |-> <<>>, layout |-> "none"]

Init ==
    /\ identify_msg_cap = FALSE
    /\ channels = [c \in Chans |-> [voiced |-> {}, opers |-> {}]]
    /\ data = EmptyBoard
    /\ sent = <<>>
    /\ event = NoEvent
    /\ board0 = EmptyBoard
    /\ shape = NoShape
    /\ running = TRUE
    /\ fault = "none"
    /\ again = FALSE
    /\ latest = NothingSet
    /\ acked = FALSE

\* the reactor waits for the next line from the server
Waiting == event.type = "none"

RECURSIVE join_all(_, _)
join_all(out, chans) ==
    IF chans = <<>> THEN out
    ELSE join_all(Append(out, <<"JOIN", Head(chans)>>), Tail(chans))

on_welcome ==
    /\ Waiting
    /\ event' = [type |-> "welcome"]
    /\ identify_msg_cap' = FALSE
    /\ sent' = LET caps == << <<"CAP", "REQ", "identify-msg">>, <<"CAP", "END">> >>
                   idfy == IF password /= ""
                           THEN privmsg(caps, "nickserv", "identify " \o password \o " ")
                           ELSE caps
               IN  join_all(idfy, channel_list)
    /\ board0' = data
    /\ shape' = NoShape
    /\ fault' = "none"
    /\ again' = FALSE
    /\ acked' = FALSE
    /\ UNCHANGED <<channels, data, running, latest>>

cap_acked_any_response(e) == contains(e.arguments[2], IdentifyMsg)

\* "if e.arguments[0] == 'ACK' and 'identify-msg' in e.arguments[1]:"
cap_acked(e) ==
    e.arguments[1] = "ACK" /\ contains(e.arguments[2], IdentifyMsg)

on_cap ==
    /\ Waiting
    /\ \E e \in CapEvents :
        /\ event' = e
        /\ identify_msg_cap' = IF cap_acked(e) THEN TRUE ELSE identify_msg_cap
        /\ acked' = IF e.arguments[1] = "ACK" /\ e.arguments[2] \in ListsIdentifyMsg
                    THEN TRUE
                    ELSE acked
    /\ sent' = <<>>
    /\ board0' = data
    /\ shape' = NoShape
    /\ fault' = "none"
    /\ again' = FALSE
    /\ UNCHANGED <<channels, data, running, latest>>

\* the irc library keeps self.channels up to date from the MODE lines
on_mode ==
    /\ Waiting
    /\ \E e \in ModeEvents :
        /\ event' = e
        /\ channels' =
              [channels EXCEPT ![e.target] =
                  CASE e.mode = "+v" -> [@ EXCEPT !.voiced = @ \cup {e.nick}]
                    [] e.mode = "-v" -> [@ EXCEPT !.voiced = @ \ {e.nick}]
                    [] e.mode = "+o" -> [@ EXCEPT !.opers = @ \cup {e.nick}]
                    [] e.mode = "-o" -> [@ EXCEPT !.opers = @ \ {e.nick}]]
    /\ sent' = <<>>
    /\ board0' = data
    /\ shape' = NoShape
    /\ fault' = "none"
    /\ again' = FALSE
    /\ UNCHANGED <<identify_msg_cap, data, running, latest, acked>>

\* history: the cells as the accepted commands leave them, read from the
\* message just dispatched
latest_recorded ==
    latest' = IF AcceptedSet'
              THEN [latest EXCEPT ![ExpectedSlot']["a"] =
                       Holding(ExpectedSession(Len(Toks') - 2))]
              ELSE IF AcceptedWipe' THEN NothingSet
              ELSE latest

\* on_pubmsg runs to its end on event e, whose text has shape sh
pubmsg_handled(e, sh) ==
    LET r == pubmsg_result(identify_msg_cap, channels, data, e)
    IN  /\ event' = e
        /\ shape' = sh
        /\ data' = r.data
        /\ sent' = r.sent
        /\ board0' = data
        /\ fault' = "none"
        /\ UNCHANGED <<identify_msg_cap, channels, running, acked>>
        /\ latest_recorded

on_pubmsg ==
    /\ Waiting
    /\ \E src \in Sources, chan \in Chans, marker \in Markers, sh \in Shapes :
        pubmsg_handled(PubmsgEvent(src, chan, marker, sh), sh)
    /\ again' = FALSE

\* the handler returns and the very same message is delivered once more
on_pubmsg_again ==
    /\ running
    /\ event.type = "pubmsg"
    /\ pubmsg_handled(event, shape)
    /\ again' = TRUE

\* the handler has returned; the reactor goes back to waiting
handler_returns ==
    /\ ~Waiting
    /\ running
    /\ event' = NoEvent
    /\ sent' = <<>>
    /\ board0' = data
    /\ shape' = NoShape
    /\ fault' = "none"
    /\ again' = FALSE
    /\ UNCHANGED <<identify_msg_cap, channels, data, running, latest, acked>>

Next ==
    \/ on_welcome
    \/ on_cap
    \/ on_mode
    \/ on_pubmsg
    \/ on_pubmsg_again
    \/ handler_returns

Spec == Init /\ [][Next]_vars

----------------------------------------------------------------------------
(* Failures of the store and of the published view.  PTGDataBase keeps the *)
(* board durable and pushes it to the ethercalc view; on_pubmsg calls it   *)
(* on lines 118, 120 and 134 and has no try statement around the calls.    *)

Faults == {"store", "publish"}

surfaces_any(f) == TRUE

\* the faults the store call raises to its caller: a failure to persist
\* does, a failure to publish stays with the publisher
surfaces(f) == f = "store"

\* the runs of on_pubmsg that call the store are those that go on to the
\* acknowledgement on line 125 or 138
reaches_store(e, r) ==
    /\ r.sent /= <<>>
    /\ r.sent[Len(r.sent)][3] \in {Str(nick_of(e.source)) \o ": ack",
                                   Str(nick_of(e.source)) \o ": done"}

sent_ack_first(r) == r.sent

\* what has been sent when the store call raises: the acknowledgement is
\* the statement after the call
sent_before_store(r) == SubSeq(r.sent, 1, Len(r.sent) - 1)

\* on_pubmsg reaches a store call and fault f happens inside it.  A fault
\* that surfaces leaves on_pubmsg as an exception: the board is not
\* written, the rest of the handler is skipped, and the exception ends
\* bot.start().  Any other fault leaves the run as it is without it.
on_pubmsg_fault ==
    /\ Waiting
    /\ UNCHANGED <<identify_msg_cap, channels, acked>>
    /\ \E src \in Sources, chan \in Chans, marker \in Markers, sh \in Shapes,
          f \in Faults :
        LET e == PubmsgEvent(src, chan, marker, sh)
            r == pubmsg_result(identify_msg_cap, channels, data, e)
        IN  /\ reaches_store(e, r)
            /\ event' = e
            /\ shape' = sh
            /\ fault' = f
            /\ IF surfaces(f)
               THEN /\ data' = data
                    /\ sent' = sent_before_store(r)
                    /\ running' = FALSE
                    /\ latest' = latest
               ELSE /\ data' = r.data
                    /\ sent' = r.sent
                    /\ running' = running
                    /\ latest_recorded
    /\ board0' = data
    /\ again' = FALSE

NextFailures ==
    \/ on_welcome
    \/ on_cap
    \/ on_mode
    \/ on_pubmsg
    \/ on_pubmsg_again
    \/ on_pubmsg_fault
    \/ handler_returns

SpecFailures == Init /\ [][NextFailures]_vars

----------------------------------------------------------------------------
(* C1 *)

\* C1: with identify-msg acknowledged, a message '#<room> <adverb> <t1> ... <tn>'
\* (n >= 1, adverb now or next in any letter case) from a sender who is voiced
\* or operator on the channel leaves cell (lowercase(room), slot of the adverb)
\* holding t1..tn joined by single spaces, and the only line sent is
\* '<nick>: ack' to that channel; '#a' and '#A' address the same cell 'a', and
\* no cell 'A' ever exists.
C1_SetCommandApplied ==
    /\ (HandledPubmsg /\ identify_msg_cap /\ WellFormedSet /\ Toks[1] \in TokRoomA
            /\ (Voiced \/ Oper))
        => /\ Cell(data, ExpectedSlot, "a") = Holding(ExpectedSession(Len(Toks) - 2))
           /\ sent = <<AckReply>>
    /\ \A slot \in Slots : "A" \notin DOMAIN data[slot]

C1_Witness ==
    /\ HandledPubmsg /\ identify_msg_cap
    /\ shape.layout = "wide"
    /\ Toks = << <<"#","A">>, TokNext, <<"x">>, <<"Y","z">> >>
    /\ Voiced /\ ~Oper
    /\ Cell(board0, "next", "a") = Holding("x")
    /\ Cell(data, "next", "a") = Holding("x Yz")
    /\ sent = <<AckReply>>

----------------------------------------------------------------------------
(* C2 *)

\* C2: a '#'-prefixed message from a sender neither voiced nor operator on the
\* channel it arrived on leaves the board as it was, no line other than
\* '<nick>: Need voice to issue commands' is sent, and with identify-msg
\* acknowledged exactly that one line is sent; with identify-msg acknowledged a
\* well-formed set command is applied (cell set and acknowledged) if and only
\* if the sender is voiced or operator on that channel.
C2_SetNeedsVoiceOrOp ==
    /\ (HandledPubmsg /\ BeginsWith("#") /\ ~Voiced /\ ~Oper)
        => /\ data = board0
           /\ OnlySent(NeedVoiceReply)
           /\ identify_msg_cap => sent = <<NeedVoiceReply>>
    /\ (HandledPubmsg /\ identify_msg_cap /\ WellFormedSet /\ Toks[1] \in TokRoomA)
        => ((Voiced \/ Oper)
              <=> /\ Sent(AckReply)
                  /\ Cell(data, ExpectedSlot, "a")
                        = Holding(ExpectedSession(Len(Toks) - 2)))

C2_Witness ==
    /\ HandledPubmsg /\ identify_msg_cap
    /\ WellFormedSet
    /\ ~Voiced /\ ~Oper
    /\ SenderNick \in channels[OtherChan].voiced
    /\ SenderNick \in channels[OtherChan].opers
    /\ board0 /= EmptyBoard
    /\ data = board0
    /\ Cell(data, ExpectedSlot, "a") /= Holding(ExpectedSession(Len(Toks) - 2))
    /\ sent = <<NeedVoiceReply>>

----------------------------------------------------------------------------
(* C3 *)

\* C3: a '!'-prefixed message from a sender who is not operator on the channel
\* (voiced or not) leaves the board as it was, no line other than
\* '<nick>: Need op for admin commands' is sent, and with identify-msg
\* acknowledged exactly that one line is sent; and a message empties a board
\* that held something only when its sender is operator on the channel.
C3_WipeNeedsOp ==
    /\ (HandledPubmsg /\ BeginsWith("!") /\ ~Oper)
        => /\ data = board0
           /\ OnlySent(NeedOpReply)
           /\ identify_msg_cap => sent = <<NeedOpReply>>
    /\ (board0 /= EmptyBoard /\ data = EmptyBoard) => (HandledPubmsg /\ Oper)

C3_Witness ==
    /\ HandledPubmsg /\ identify_msg_cap
    /\ BeginsWith("!") /\ Toks[1] \in TokWipe
    /\ Voiced /\ ~Oper
    /\ board0 /= EmptyBoard
    /\ data = board0
    /\ sent = <<NeedOpReply>>

----------------------------------------------------------------------------
(* C4 *)

\* C4: with identify-msg acknowledged, when an operator sends a message that
\* begins with the token '!wipe' in any letter case (alone or followed by other
\* tokens), afterwards no (room, slot) cell is set, and the only line sent is
\* '<nick>: done'.
C4_WipeEmptiesBoard ==
    (HandledPubmsg /\ identify_msg_cap /\ BeginsWith("!") /\ Toks[1] \in TokWipe /\ Oper)
        => /\ \A slot \in Slots : DOMAIN data[slot] = {}
           /\ \A slot \in Slots : \A room \in DOMAIN board0[slot] :
                  Cell(data, slot, room) = Unset
           /\ sent = <<DoneReply>>

C4_Witness ==
    /\ HandledPubmsg /\ identify_msg_cap
    /\ BeginsWith("!") /\ Toks = << <<"!","W","i","P","e">>, TokNow >>
    /\ Oper /\ ~Voiced
    /\ Cell(board0, "now", "a") = Holding("x")
    /\ Cell(board0, "next", "a") = Holding("x Yz")
    /\ data = EmptyBoard
    /\ sent = <<DoneReply>>

----------------------------------------------------------------------------
(* C5 *)

\* C5: while identify_msg_cap is false, handling a channel message changes no
\* cell of the board and sends nothing, whatever the text and the sender's
\* voice and operator status.
C5_IgnoredWithoutCap ==
    (HandledPubmsg /\ ~identify_msg_cap) => (data = board0 /\ sent = <<>>)

C5_Witness ==
    /\ HandledPubmsg /\ ~identify_msg_cap
    /\ Marker = "+"
    /\ BeginsWith("!") /\ Toks = << <<"!","w","i","p","e">> >>
    /\ Oper /\ Voiced
    /\ board0 /= EmptyBoard
    /\ data = board0
    /\ sent = <<>>

----------------------------------------------------------------------------
(* C6 *)

\* C6: a channel message whose identify-msg marker is not '+' changes no cell
\* of the board and gets no reply, even with the capability acknowledged and a
\* voiced or operator sender.
C6_UnverifiedTextIgnored ==
    (HandledPubmsg /\ Marker /= "+") => (data = board0 /\ sent = <<>>)

----------------------------------------------------------------------------
(* C7 *)

\* a '#'-prefixed message that is no well-formed set command
MalformedSet ==
    /\ BeginsWith("#")
    /\ (Len(Toks) < 3 \/ Toks[2] = TokMaybe)

\* the error line such a message is answered with
MalformedSetReply ==
    IF Len(Toks) < 3
    THEN Reply(SenderNick \o ": Incorrect number of arguments")
    ELSE Reply(SenderNick \o ": unknown directive 'maybe'")

\* C7: with identify-msg acknowledged, a malformed set command from a voiced or
\* operator sender leaves the board as it was and is answered with exactly two
\* lines, an error and then the usage line: '<nick>: Incorrect number of
\* arguments' when it has fewer than 3 tokens (whatever the second token), and
\* "<nick>: unknown directive '<adverb lowercased>'" when it has 3 or more
\* tokens and its second token is neither now nor next; no ack is sent.
C7_MalformedSetRejected ==
    (HandledPubmsg /\ identify_msg_cap /\ MalformedSet /\ (Voiced \/ Oper))
        => /\ data = board0
           /\ sent = <<MalformedSetReply, UsageReply>>
           /\ ~Sent(AckReply)

C7_Witness ==
    /\ HandledPubmsg /\ identify_msg_cap
    /\ BeginsWith("#") /\ Len(Toks) = 4 /\ Toks[2] = TokMaybe
    /\ Voiced /\ ~Oper
    /\ board0 /= EmptyBoard
    /\ data = board0
    /\ sent = <<Reply("ann: unknown directive 'maybe'"), UsageReply>>

----------------------------------------------------------------------------
(* C8 *)

\* the first token is '!' followed by a command word other than wipe ('!Foo'),
\* or by nothing at all
NotWipe == BeginsWith("!") /\ Toks[1] \in {TokFoo, TokBang}

UnknownCommandReply ==
    IF Toks[1] = TokFoo
    THEN Reply(SenderNick \o ": unknown command 'foo'")
    ELSE Reply(SenderNick \o ": unknown command ''")

\* an operator's '!'-prefixed message whose command word is not wipe
UnknownAdminCommand ==
    HandledPubmsg /\ identify_msg_cap /\ NotWipe /\ Oper

\* C8 as stated: when an operator sends a '!'-prefixed message whose command
\* word is not 'wipe', the board is unchanged, no 'done' is sent, and the reply
\* "<nick>: unknown command '<name>'" is followed by the usage line.
C8_UnknownCommandThenUsage ==
    UnknownAdminCommand
        => /\ data = board0
           /\ ~Sent(DoneReply)
           /\ sent = <<UnknownCommandReply, UsageReply>>

\* C8 amended: when an operator sends a '!'-prefixed message whose command word
\* is not 'wipe', the board is unchanged, no 'done' is sent, and the single
\* line "<nick>: unknown command '<name lowercased>'" is sent; no usage line
\* follows it.
C8_UnknownCommandAlone ==
    UnknownAdminCommand
        => /\ data = board0
           /\ ~Sent(DoneReply)
           /\ ~Sent(UsageReply)
           /\ sent = <<UnknownCommandReply>>

C8_Witness ==
    /\ UnknownAdminCommand
    /\ ~Voiced
    /\ Len(Toks) = 3 /\ Toks[1] = TokFoo
    /\ board0 /= EmptyBoard
    /\ data = board0
    /\ sent = <<Reply("ann: unknown command 'foo'")>>

----------------------------------------------------------------------------
(* C9 *)

\* a malformed command of either kind
Malformed == MalformedSet \/ NotWipe

MalformedReply ==
    IF BeginsWith("#") THEN MalformedSetReply ELSE UnknownCommandReply

\* the privilege the handler asks of the sender of this message
Privileged == IF BeginsWith("#") THEN Voiced \/ Oper ELSE Oper

DeniedReply == IF BeginsWith("#") THEN NeedVoiceReply ELSE NeedOpReply

\* C9 as stated: a malformed command gets its malformed-command reply whatever
\* the sender's voice and operator status, never an authorization-denied reply.
C9_MalformedNeverDenied ==
    (HandledPubmsg /\ identify_msg_cap /\ Malformed)
        => /\ sent /= <<>> /\ Head(sent) = MalformedReply
           /\ ~Sent(NeedVoiceReply)
           /\ ~Sent(NeedOpReply)

\* C9 amended: authorization precedes parsing.  A malformed command gets its
\* malformed-command reply, and no authorization-denied reply, only when the
\* sender holds the privilege its prefix asks for (voice or operator for '#',
\* operator for '!'); from any other sender it gets the authorization-denied
\* reply alone, and in both cases the board is unchanged.
C9_AuthorizationPrecedesParsing ==
    (HandledPubmsg /\ identify_msg_cap /\ Malformed)
        => /\ data = board0
           /\ IF Privileged
              THEN /\ Head(sent) = MalformedReply
                   /\ ~Sent(NeedVoiceReply)
                   /\ ~Sent(NeedOpReply)
              ELSE sent = <<DeniedReply>>

C9_Witness ==
    /\ HandledPubmsg /\ identify_msg_cap
    /\ MalformedSet /\ Len(Toks) = 3 /\ Toks[2] = TokMaybe
    /\ ~Voiced /\ ~Oper
    /\ data = board0
    /\ sent = <<NeedVoiceReply>>

----------------------------------------------------------------------------
(* C10 *)

\* C10: a channel message whose text begins with neither '#' nor '!' (an empty
\* or blank text and a command behind leading whitespace included) gets no
\* reply and leaves the board as it was, for every sender, every privilege
\* combination and either value of identify_msg_cap.
C10_PlainChatIgnored ==
    (HandledPubmsg /\ ~BeginsWith("#") /\ ~BeginsWith("!"))
        => (data = board0 /\ sent = <<>>)

C10_Witness ==
    /\ HandledPubmsg /\ identify_msg_cap
    /\ shape.layout = "lead" /\ Toks = << <<"!","w","i","p","e">> >>
    /\ Oper /\ Voiced
    /\ Marker = "+"
    /\ board0 /= EmptyBoard
    /\ data = board0
    /\ sent = <<>>

----------------------------------------------------------------------------
(* C11 *)

\* C11: at every moment each cell (room, slot) of the board holds exactly
\* the session name of the most recent accepted set command for that cell
\* issued after the most recent accepted wipe, and is unset if there is
\* none; no other room key and no earlier name remains on the board.
C11_LastWriteWins ==
    \A slot \in Slots :
        /\ DOMAIN data[slot] \subseteq RoomKeys
        /\ \A room \in RoomKeys : Cell(data, slot, room) = latest[slot][room]

\* an accepted set command has replaced a different name in its cell while
\* the other slot of the room holds a name too
C11_Witness ==
    /\ AcceptedSet
    /\ Cell(board0, ExpectedSlot, "a") /= Unset
    /\ Cell(data, ExpectedSlot, "a") /= Cell(board0, ExpectedSlot, "a")
    /\ \A slot \in Slots : Cell(data, slot, "a") /= Unset

----------------------------------------------------------------------------
(* C12 *)

\* C12: when an accepted set command is followed at once by the identical
\* command for the same cell, the second leaves the board exactly as the
\* first left it.
C12_RepeatedSetIdempotent ==
    (HandledPubmsg /\ again /\ AcceptedSet) => data = board0

\* the same accepted set command, with a session name of two words, has
\* been handled twice in a row while the other slot holds a name
C12_Witness ==
    /\ HandledPubmsg
    /\ again
    /\ AcceptedSet
    /\ Len(Toks) = 4
    /\ Cell(data, ExpectedSlot, "a") = Holding(ExpectedSession(2))
    /\ \A slot \in Slots : Cell(data, slot, "a") /= Unset

----------------------------------------------------------------------------
(* C13 *)

\* C13: if the store operation (add_now, add_next or wipe) fails while a
\* command is handled, neither '<nick>: ack' nor '<nick>: done' is sent.
C13_NoAckOnStoreFailure ==
    (HandledPubmsg /\ fault = "store")
        => /\ ~Sent(AckReply)
           /\ ~Sent(DoneReply)

\* the store failed under an accepted set command for an unset cell, which
\* stays unset
C13_Witness ==
    /\ fault = "store"
    /\ AcceptedSet
    /\ Cell(data, ExpectedSlot, "a") = Unset
    /\ sent = <<>>

----------------------------------------------------------------------------
(* C14 *)

\* C14 as stated: if the store reports a failure while applying a set or a
\* wipe, an error reply is sent to the channel the command came from.
C14_StoreFailureReported ==
    (HandledPubmsg /\ fault = "store")
        => \E i \in 1..Len(sent) : sent[i][1] = "PRIVMSG" /\ sent[i][2] = Chan

----------------------------------------------------------------------------
(* C15 *)

\* the handling of the message failed: it was denied, malformed, or the
\* store failed under it
HandlingFailed ==
    /\ HandledPubmsg
    /\ identify_msg_cap
    /\ \/ fault = "store"
       \/ Sent(NeedVoiceReply)
       \/ Sent(NeedOpReply)
       \/ (Malformed /\ Sent(MalformedReply))

\* C15 as stated: a failure while handling one event (parse error,
\* authorization denial or store failure) never stops event handling: the
\* handler returns to the reactor, which goes on to the next event.
C15_FailureNeverStopsHandling ==
    HandlingFailed => (running /\ ENABLED handler_returns)

----------------------------------------------------------------------------
(* C16 *)

----------------------------------------------------------------------------
(* C17 *)

----------------------------------------------------------------------------
(* C18 *)

\* the board after one set of the cell the message names
OneCellSet ==
    [board0 EXCEPT ![ExpectedSlot] =
        ("a" :> ExpectedSession(Len(Toks) - 2)) @@ @]

\* C18: a channel event changes the board at most once and has one outcome.
\* '<nick>: ack' is sent only as the single reply of an accepted set command
\* whose one cell was written in this event, '<nick>: done' only as the
\* single reply of an accepted wipe that emptied the board in this event;
\* never both, never together with an error or usage line; the board changes
\* in no other event; and every line goes to the channel the event came from.
C18_OneOutcomePerEvent ==
    HandledPubmsg
        => /\ \A i \in 1..Len(sent) :
                  sent[i][1] = "PRIVMSG" /\ sent[i][2] = Chan
           /\ Sent(AckReply) =>
                  /\ AcceptedSet
                  /\ sent = <<AckReply>>
                  /\ data = OneCellSet
           /\ Sent(DoneReply) =>
                  /\ AcceptedWipe
                  /\ sent = <<DoneReply>>
                  /\ data = EmptyBoard
           /\ ~(Sent(AckReply) /\ Sent(DoneReply))
           /\ data /= board0 => (Sent(AckReply) \/ Sent(DoneReply))

\* an accepted set command on the second channel has written its one cell,
\* left the other slot as it was, and been answered with the ack alone
C18_Witness ==
    /\ AcceptedSet
    /\ Chan = channel_list[2]
    /\ sent = <<AckReply>>
    /\ data /= board0
    /\ \A slot \in Slots : Cell(data, slot, "a") /= Unset

----------------------------------------------------------------------------
(* C19 *)

\* C19: identify_msg_cap is true only if a CAP ACK listing identify-msg was
\* received after the most recent welcome (acked records exactly that, so
\* no other CAP response makes the flag true).  Every welcome leaves it
\* false; and as long as no such ACK has come since the last welcome, a
\* channel message neither changes the board nor gets a reply.
C19_CapFollowsAckSinceWelcome ==
    /\ identify_msg_cap => acked
    /\ event.type = "welcome" => ~identify_msg_cap
    /\ (HandledPubmsg /\ ~acked) => (data = board0 /\ sent = <<>>)

\* after a reconnect: a name set while identify-msg was acknowledged is on
\* the board, the welcome has reset the flag, and a well-formed set command
\* from a voiced sender is ignored
C19_Witness ==
    /\ HandledPubmsg
    /\ ~identify_msg_cap
    /\ data /= EmptyBoard
    /\ WellFormedSet
    /\ Voiced
    /\ Marker = "+"
    /\ data = board0
    /\ sent = <<>>

====
